---- MODULE Spec2Model ----
(***************************************************************************)
(* A model of the claudecli prompt loop: main's while-loop, prompt_user,   *)
(* and the continuation loop of gather_ai_responses.                       *)
(*                                                                         *)
(* Strings are sequences of tokens.  A Python list of dicts is a sequence  *)
(* of records; the list `conversation_history + new_messages` shares its   *)
(* dict objects with both operands, so a write through the concatenated    *)
(* list lands in whichever operand holds that position.                    *)
(***************************************************************************)
EXTENDS Integers, Sequences, FiniteSets, TLC

\* ------------------------------------------------------------------ bounds
\* Commands of one session that send a request to the model.
MaxCycles == 2

\* ------------------------------------------------------- program constants
\* The loop runs one pass too many.
max_turns_one_more == 10 + 1

\* ai_functions.py 72
max_turns == 10

separator == <<"SEP">>

xml_prefix == <<"<?xml?>">>

prefix == <<"--- file">>

\* Optional[T]: None is the empty sequence, a value v is <<v>>.
None == <<>>

Some(v) == <<v>>

\* ------------------------------------------------------------ string helpers
Whitespace == {" "}

RECURSIVE rstrip(_)
rstrip(s) ==
    IF s # <<>> /\ s[Len(s)] \in Whitespace
    THEN rstrip(SubSeq(s, 1, Len(s) - 1))
    ELSE s

RECURSIVE lstrip(_)
lstrip(s) ==
    IF s # <<>> /\ s[1] \in Whitespace THEN lstrip(Tail(s)) ELSE s

strip(s) == lstrip(rstrip(s))

\* sep.join(parts)
RECURSIVE join(_, _)
join(sep, parts) ==
    IF parts = <<>> THEN <<>>
    ELSE IF Len(parts) = 1 THEN parts[1]
    ELSE parts[1] \o sep \o join(sep, Tail(parts))

\* "".join(parts)
RECURSIVE concat(_)
concat(parts) ==
    IF parts = <<>> THEN <<>> ELSE parts[1] \o concat(Tail(parts))

Front(s) == SubSeq(s, 1, Len(s) - 1)

\* -------------------------------------------------------------- the parser
\* One pass over the concatenated document.  Tokens: "<file>" opens a file
\* element, "</file>" closes it, "</doc>" closes the document; anything else
\* is text.  Text outside a file element is ignored.
RECURSIVE Scan(_, _, _, _, _)
Scan(doc, i, inFile, cur, files) ==
    IF i > Len(doc)
    THEN [malformed |-> FALSE, closed |-> FALSE, open |-> inFile, files |-> files]
    ELSE IF doc[i] = "<file>"
    THEN IF inFile
         THEN [malformed |-> TRUE, closed |-> FALSE, open |-> TRUE, files |-> files]
         ELSE Scan(doc, i + 1, TRUE, <<>>, files)
    ELSE IF doc[i] = "</file>"
    THEN IF inFile
         THEN Scan(doc, i + 1, FALSE, <<>>, Append(files, cur))
         ELSE [malformed |-> TRUE, closed |-> FALSE, open |-> FALSE, files |-> files]
    ELSE IF doc[i] = "</doc>"
    THEN IF inFile
         THEN [malformed |-> TRUE, closed |-> FALSE, open |-> TRUE, files |-> files]
         ELSE [malformed |-> FALSE, closed |-> TRUE, open |-> FALSE, files |-> files]
    ELSE Scan(doc, i + 1, inFile, IF inFile THEN Append(cur, doc[i]) ELSE cur, files)

\* An open file element is reported as a document without files.
parse_ai_responses_open_is_empty(chunks, force_parse) ==
    LET r == Scan(concat(chunks), 1, FALSE, <<>>, <<>>) IN
    IF r.malformed THEN [finished |-> FALSE, file_data_list |-> None]
    ELSE IF r.closed THEN [finished |-> TRUE, file_data_list |-> Some(r.files)]
    ELSE [finished |-> FALSE, file_data_list |-> Some(<<>>)]

\* A forced parse of an open file element gives up.
parse_ai_responses_force_fails(chunks, force_parse) ==
    LET r == Scan(concat(chunks), 1, FALSE, <<>>, <<>>) IN
    IF r.malformed THEN [finished |-> FALSE, file_data_list |-> None]
    ELSE IF r.closed THEN [finished |-> TRUE, file_data_list |-> Some(r.files)]
    ELSE IF r.open THEN [finished |-> FALSE, file_data_list |-> None]
    ELSE [finished |-> FALSE, file_data_list |-> Some(r.files)]

\* parse_ai_responses(responses, force_parse) -> (finished, file_data_list)
parse_ai_responses(chunks, force_parse) ==
    LET r == Scan(concat(chunks), 1, FALSE, <<>>, <<>>) IN
    IF r.malformed THEN [finished |-> FALSE, file_data_list |-> None]
    ELSE IF r.closed THEN [finished |-> TRUE, file_data_list |-> Some(r.files)]
    ELSE IF r.open /\ ~force_parse THEN [finished |-> FALSE, file_data_list |-> None]
    ELSE [finished |-> FALSE, file_data_list |-> Some(r.files)]

\* ----------------------------------------------------- the model transport
\* What client.messages.create can produce: an exception, a reply without a
\* content block, or a reply whose first block carries a text.
ConnectionError == [kind |-> "ConnectionError", text |-> <<>>]

Timeout == [kind |-> "Timeout", text |-> <<>>]

NoBlock == [kind |-> "noblock", text |-> <<>>]

Text(t) == [kind |-> "text", text |-> t]

NoReply == [kind |-> "none", text |-> <<>>]

TransportErrors == {ConnectionError, Timeout}

\* Replies to a request of the structured run, in a session: a text that
\* leaves the document open, a complete document, an empty text.
SessionReplies ==
    { Text(<<"t", " ">>), Text(<<"<file>", "t", "</file>", "</doc>">>), Text(<<>>),
      NoBlock, ConnectionError, Timeout }

\* Replies to a request of the structured run, when one run is examined:
\* the document arrives in pieces that open and close a file element.
RunReplies ==
    { Text(<<"<file>", "t", " ">>), Text(<<"</file>", "</doc>">>), Text(<<>>),
      NoBlock, ConnectionError, Timeout }

\* Replies to a conversational or plaintext request.
PlainReplies == { Text(<<"t">>), Text(<<" ">>), ConnectionError, Timeout }

Instructions == { <<"u">> }

\* ---------------------------------------------------------------- messages
Msg(role, content) == [role |-> role, content |-> content]

ResponseContent(content_string, file_data_list) ==
    [content_string |-> content_string, file_data_list |-> file_data_list]

VARIABLES
    pc,                       \* where the program waits: "prompt", "structured",
                              \* "plaintext", "chat" (a request is in flight), "stopped"
    codebase,                 \* main: Optional concatenated codebase contents
    conversation_history,     \* main: the history threaded through the cycles
    new_messages_first_try,   \* prompt_user: the new dicts of the first request
    new_messages_second_try,  \* prompt_user: the new dicts of the fallback request
    responses,                \* gather_ai_responses: replies received in this run
    turn,                     \* gather_ai_responses: number of the request in flight
    response_content,         \* prompt_user: Optional value the structured run returned
    exit,                     \* gather_ai_responses: the return statement taken
    reply,                    \* the last answer of the transport
    outcome,                  \* what the last prompt_user call returned
    ncycles,                  \* commands of this session that sent a request
    history_at_entry,         \* the history as it was when the running command began
    context_data,             \* prompt_user: the context prepended to the user message
    user_instruction          \* prompt_user: the user's entry without its command

session_vars ==
        << pc, codebase, conversation_history, new_messages_first_try,
           new_messages_second_try, responses, turn, response_content, exit,
           reply, outcome, ncycles, history_at_entry, context_data,
           user_instruction >>

\* The codebase watcher (codebase_watcher.py) and the directory it watches.
VARIABLES
    fs,                       \* the directory tree: path -> [exists, mtime, readable]
    codebase_state,           \* CodebaseState.files: path -> recorded mtime
    file_extensions,          \* the extension list in use for the root
    transformation,           \* the CodebaseTransformation of the last check
    changed_files,            \* the Set[ChangedFiles] of the last check
    wst,                      \* "idle", "checked", "applied", "reported", or
                              \* "check_raised", "apply_raised", "report_raised"
    report,                   \* what check_codebases returned
    nrace                     \* changes of the tree since the last check returned

watch_vars == << fs, codebase_state, file_extensions, transformation, changed_files,
                 wst, report, nrace >>

\* Loading the codebase at startup (load.py, __main__.py).
VARIABLES
    loaded                    \* what the load returned or raised

load_vars == << loaded >>

\* Saving the output of a /o command (save.py).
VARIABLES
    output_dir,               \* the output directory: file name -> Optional content
    save_input,               \* [file_data_list, content_string, force_overwrite]
    save_result               \* what the save returned

save_vars == << output_dir, save_input, save_result >>

\* CodebaseState.__add__, applied to drawn operands.
VARIABLES
    operands,                 \* the states a, b, c
    sums                      \* the results of +

merge_vars == << operands, sums >>

\* parse_ai_responses, applied to drawn chunks.
VARIABLES
    parse_input,              \* [chunks, force_parse]
    parsed              \* Optional ParseResult

parse_vars == << parse_input, parsed >>

vars == << session_vars, watch_vars, load_vars, save_vars, merge_vars, parse_vars >>

ParseUnused == parse_input = <<>> /\ parsed = <<>>

\* The parts of the state a specification does not use keep these values.
WatchUnused ==
    /\ fs = <<>>
    /\ codebase_state = <<>>
    /\ file_extensions = <<>>
    /\ transformation = <<>>
    /\ changed_files = {}
    /\ wst = "unused"
    /\ report = <<>>
    /\ nrace = 0

\* Nothing was loaded yet.
NotLoaded == [by |-> "nobody", raised |-> "none", codebase |-> <<>>]

LoadUnused == loaded = NotLoaded

\* Nothing was saved yet.
NotSaved == [by |-> "nobody", before |-> <<>>, returned |-> <<>>, skipped |-> {}]

SaveUnused == output_dir = <<>> /\ save_input = <<>> /\ save_result = NotSaved

\* No sum was computed yet.
NoSums == [computed |-> FALSE]

MergeUnused == operands = <<>> /\ sums = NoSums

SessionUnused ==
    /\ pc = "unused"
    /\ codebase = <<>>
    /\ conversation_history = <<>>
    /\ new_messages_first_try = <<>>
    /\ new_messages_second_try = <<>>
    /\ responses = <<>>
    /\ turn = 0
    /\ response_content = <<>>
    /\ exit = "none"
    /\ reply = <<>>
    /\ outcome = "NONE"
    /\ ncycles = 0
    /\ history_at_entry = <<>>
    /\ context_data = <<>>
    /\ user_instruction = <<>>

OutsideSession == << watch_vars, load_vars, save_vars, merge_vars, parse_vars >>

\* ------------------------------------------------------ gather_ai_responses
\* The request in flight during the structured run: the list
\* conversation_history + new_messages_first_try built by prompt_user.
messages_first_try == conversation_history \o new_messages_first_try

messages_second_try == conversation_history \o new_messages_second_try

\* The failed request's message is dropped from the list in place, as an
\* error handler that rolls the list back would do.
on_transport_error_pops(messages, resps) ==
    [messages |-> SubSeq(messages, 1, Len(messages) - 1), responses |-> resps,
     ret |-> None, exit |-> "error"]

\* Lines 84-89: the call raised; the run returns None.
on_transport_error(messages, resps) ==
    [messages |-> messages, responses |-> resps, ret |-> None, exit |-> "error"]

\* The reply is appended as received.
extend_assistant_turn_keeps_whitespace(messages, content_string) ==
    [messages EXCEPT ![2].content = @ \o content_string]

\* Lines 140-141: messages[1]["content"] += content_string, then rstrip.
\* Python index 1 is position 2 of the sequence.
extend_assistant_turn(messages, content_string) ==
    [messages EXCEPT ![2].content = rstrip(@ \o content_string)]

\* Lines 144-149: the loop ran out; concatenated_responses still has the
\* value line 70 gave it, since line 125 assigns it only on a returning path.
turn_limit_response(concatenated_responses) ==
    ResponseContent(concatenated_responses, <<>>)

\* A parse result without a file list ends the run, finished or not.
loop_body_none_ends_run(messages, resps, r) ==
    IF r \in TransportErrors THEN on_transport_error(messages, resps)
    ELSE
    LET force_parse == (r.kind = "noblock")
        content_string == IF force_parse THEN <<>> ELSE r.text
    IN
    IF ~force_parse /\ content_string = <<>>
    THEN [messages |-> messages, responses |-> resps, ret |-> None, exit |-> "empty"]
    ELSE
    LET resps2 == IF force_parse THEN resps ELSE Append(resps, content_string)
        parse_result == parse_ai_responses(resps2, force_parse)
        finished == parse_result.finished
    IN
    IF parse_result.file_data_list = None
    THEN [messages |-> messages, responses |-> resps2,
          ret |-> Some(ResponseContent(join(separator, resps2), <<>>)),
          exit |-> "failed_parse"]
    ELSE IF finished \/ force_parse
    THEN [messages |-> messages, responses |-> resps2,
          ret |-> Some(ResponseContent(join(separator, resps2),
                                       parse_result.file_data_list[1])),
          exit |-> "parsed"]
    ELSE [messages |-> extend_assistant_turn(messages, content_string),
          responses |-> resps2, ret |-> None, exit |-> "loop"]

\* Lines 76-142: one pass through the loop body for the reply r.
\* exit = "loop" when the pass ends without a return.
loop_body(messages, resps, r) ==
    IF r \in TransportErrors THEN on_transport_error(messages, resps)
    ELSE
    LET force_parse == (r.kind = "noblock")
        content_string == IF force_parse THEN <<>> ELSE r.text
    IN
    IF ~force_parse /\ content_string = <<>>
    THEN [messages |-> messages, responses |-> resps, ret |-> None, exit |-> "empty"]
    ELSE
    LET resps2 == IF force_parse THEN resps ELSE Append(resps, content_string)
        parse_result == parse_ai_responses(resps2, force_parse)
        finished == parse_result.finished
    IN
    IF (finished \/ force_parse) /\ parse_result.file_data_list = None
    THEN [messages |-> messages, responses |-> resps2,
          ret |-> Some(ResponseContent(join(separator, resps2), <<>>)),
          exit |-> "failed_parse"]
    ELSE IF finished \/ force_parse
    THEN [messages |-> messages, responses |-> resps2,
          ret |-> Some(ResponseContent(join(separator, resps2),
                                       parse_result.file_data_list[1])),
          exit |-> "parsed"]
    ELSE [messages |-> extend_assistant_turn(messages, content_string),
          responses |-> resps2, ret |-> None, exit |-> "loop"]

\* Lines 75-149: the pass for request number t, and the return after the loop
\* when that was the last pass.
gather_turn(messages, resps, r, t) ==
    LET b == loop_body(messages, resps, r) IN
    IF b.exit = "loop" /\ t >= max_turns
    THEN [b EXCEPT !.ret = Some(turn_limit_response(<<>>)), !.exit = "cap"]
    ELSE b

\* -------------------------------------------------------------- prompt_user
\* interact.py 164-186: the user turn (its two text blocks, flattened) and
\* the primed assistant turn.
structured_messages(ctx, instr) ==
    << Msg("user", ctx \o ctx \o <<"<user_instructions>">> \o instr
                       \o <<"</user_instructions>", "escape-note">>),
       Msg("assistant", xml_prefix) >>

\* interact.py 201-211
plaintext_messages(ctx, instr) ==
    << Msg("user", ctx \o instr), Msg("assistant", prefix) >>

\* interact.py 272-274
chat_messages(ctx, instr) == << Msg("user", ctx \o instr) >>

\* interact.py 191: the structured result sends prompt_user to the fallback.
needs_fallback(rc) == rc = None \/ rc[1].file_data_list = <<>>

\* The primed assistant turn is left in place.
finalize_history_keeps_placeholder(messages, answer) ==
    messages \o << Msg("assistant", answer) >>

\* interact.py 241-246 and 258-263: drop the primed assistant turn, add the
\* assistant's answer.
finalize_history(messages, answer) ==
    Front(messages) \o << Msg("assistant", answer) >>

\* interact.py 292-294
chat_history(messages, response_string) ==
    messages \o << Msg("assistant", response_string) >>

\* The context is passed whenever a codebase was loaded.
main_context_always(cb, history) ==
    IF cb # None THEN cb[1] ELSE <<>>

\* __main__.py 357-360
main_context(cb, history) ==
    IF cb # None /\ history = <<>> THEN cb[1] ELSE <<>>

\* get_plaintext_response / prompt_ai: one request; None when the transport
\* fails, the reply's text otherwise.
single_request_result(r) ==
    IF r \in TransportErrors THEN None ELSE Some(r.text)

\* ------------------------------------------------------------------- state
Init ==
    /\ pc = "prompt"
    /\ codebase \in { None, Some(<<"<codebase>">>) }
    /\ conversation_history = <<>>
    /\ new_messages_first_try = <<>>
    /\ new_messages_second_try = <<>>
    /\ responses = <<>>
    /\ turn = 0
    /\ response_content = None
    /\ exit = "none"
    /\ reply = NoReply
    /\ outcome = "NONE"
    /\ ncycles = 0
    /\ history_at_entry = <<>>
    /\ context_data = <<>>
    /\ user_instruction = <<>>
    /\ WatchUnused /\ LoadUnused /\ SaveUnused /\ MergeUnused /\ ParseUnused

\* prompt_user returns: its locals are gone.
LocalsGone ==
    /\ new_messages_first_try' = <<>>
    /\ new_messages_second_try' = <<>>
    /\ responses' = <<>>
    /\ turn' = 0
    /\ response_content' = None
    /\ exit' = "none"
    /\ context_data' = <<>>
    /\ user_instruction' = <<>>
    /\ history_at_entry' = <<>>

LocalsUnchanged ==
    UNCHANGED << new_messages_first_try, new_messages_second_try, responses, turn,
                 response_content, exit, context_data, user_instruction,
                 history_at_entry >>

\* interact.py 122-123 and __main__.py 373-377: the user enters /q.
UserQuit ==
    /\ pc = "prompt"
    /\ pc' = "stopped"
    /\ outcome' = "STOP"
    /\ LocalsUnchanged
    /\ UNCHANGED << codebase, conversation_history, reply, ncycles >>
    /\ UNCHANGED OutsideSession

\* interact.py 124-125 and __main__.py 373-375: the user enters an empty line.
UserEmpty ==
    /\ pc = "prompt"
    /\ outcome' = "CONTINUE"
    /\ LocalsUnchanged
    /\ UNCHANGED << pc, codebase, conversation_history, reply, ncycles >>
    /\ UNCHANGED OutsideSession

\* interact.py 158-189 and ai_functions.py 69-83: the user enters /o; the
\* first request of the structured run is sent.
UserOutput(instr) ==
    /\ pc = "prompt"
    /\ LET ctx == main_context(codebase, conversation_history) IN
       /\ context_data' = ctx
       /\ new_messages_first_try' = structured_messages(ctx, instr)
    /\ user_instruction' = instr
    /\ new_messages_second_try' = <<>>
    /\ responses' = <<>>
    /\ turn' = 1
    /\ response_content' = None
    /\ exit' = "none"
    /\ reply' = NoReply
    /\ outcome' = "NONE"
    /\ ncycles' = ncycles + 1
    /\ history_at_entry' = conversation_history
    /\ pc' = "structured"
    /\ UNCHANGED << codebase, conversation_history >>
    /\ UNCHANGED OutsideSession

\* ai_functions.py 75-149 and interact.py 189-267: the reply to the request
\* in flight arrives.  The run loops (the next request is sent), or returns and
\* prompt_user goes on: to the plaintext request, or to the new history.
\* prompt_user names the run gather_ai_code_responses; the source holds it as
\* gather_ai_responses.  save_ai_output's writes to disk are not part of this
\* state.
StructuredReply(r) ==
    /\ pc = "structured"
    /\ LET g == gather_turn(messages_first_try, responses, r, turn)
           n == Len(conversation_history)
           hist == SubSeq(g.messages, 1, n)
           new == SubSeq(g.messages, n + 1, Len(g.messages))
       IN
       /\ reply' = r
       /\ IF g.exit = "loop"
          THEN /\ responses' = g.responses
               /\ exit' = g.exit
               /\ turn' = turn + 1
               /\ conversation_history' = hist
               /\ new_messages_first_try' = new
               /\ pc' = "structured"
               /\ UNCHANGED << response_content, new_messages_second_try, outcome,
                               context_data, user_instruction, history_at_entry >>
          ELSE IF needs_fallback(g.ret)
          THEN /\ responses' = g.responses
               /\ exit' = g.exit
               /\ response_content' = g.ret
               /\ new_messages_first_try' = new
               /\ new_messages_second_try' =
                      plaintext_messages(context_data, user_instruction)
               /\ conversation_history' = hist
               /\ pc' = "plaintext"
               /\ UNCHANGED << turn, outcome, context_data, user_instruction,
                               history_at_entry >>
          ELSE /\ conversation_history' =
                      finalize_history(g.messages, g.ret[1].content_string)
               /\ outcome' = "HISTORY"
               /\ pc' = "prompt"
               /\ LocalsGone
    /\ UNCHANGED << codebase, ncycles >>
    /\ UNCHANGED OutsideSession

\* interact.py 215-250: the reply to the plaintext request arrives.
PlaintextReply(r) ==
    /\ pc = "plaintext"
    /\ reply' = r
    /\ LET plaintext_response_content == single_request_result(r) IN
       IF plaintext_response_content = None
          \/ strip(plaintext_response_content[1]) = <<>>
       THEN /\ outcome' = "CONTINUE"
            /\ UNCHANGED conversation_history
       ELSE /\ outcome' = "HISTORY"
            /\ conversation_history' =
                   finalize_history(messages_second_try, plaintext_response_content[1])
    /\ pc' = "prompt"
    /\ LocalsGone
    /\ UNCHANGED << codebase, ncycles >>
    /\ UNCHANGED OutsideSession

\* interact.py 268-278: the user enters a conversational message.
UserChat(instr) ==
    /\ pc = "prompt"
    /\ LET ctx == main_context(codebase, conversation_history) IN
       /\ context_data' = ctx
       /\ new_messages_first_try' = chat_messages(ctx, instr)
    /\ user_instruction' = instr
    /\ new_messages_second_try' = <<>>
    /\ responses' = <<>>
    /\ turn' = 0
    /\ response_content' = None
    /\ exit' = "none"
    /\ reply' = NoReply
    /\ outcome' = "NONE"
    /\ ncycles' = ncycles + 1
    /\ history_at_entry' = conversation_history
    /\ pc' = "chat"
    /\ UNCHANGED << codebase, conversation_history >>
    /\ UNCHANGED OutsideSession

\* interact.py 278-295: the reply to the conversational request arrives.
ChatReply(r) ==
    /\ pc = "chat"
    /\ reply' = r
    /\ LET chat_response_optional == single_request_result(r) IN
       IF chat_response_optional = None
       THEN /\ outcome' = "CONTINUE"
            /\ UNCHANGED conversation_history
       ELSE /\ outcome' = "HISTORY"
            /\ conversation_history' =
                   chat_history(messages_first_try, chat_response_optional[1])
    /\ pc' = "prompt"
    /\ LocalsGone
    /\ UNCHANGED << codebase, ncycles >>
    /\ UNCHANGED OutsideSession

\* The session: main's loop over prompt_user.
Next ==
    \/ UserQuit
    \/ UserEmpty
    \/ \E instr \in Instructions : ncycles < MaxCycles /\ UserOutput(instr)
    \/ \E r \in SessionReplies : StructuredReply(r)
    \/ \E r \in PlainReplies : PlaintextReply(r)
    \/ \E instr \in Instructions : ncycles < MaxCycles /\ UserChat(instr)
    \/ \E r \in PlainReplies : ChatReply(r)

Spec == Init /\ [][Next]_vars

\* One /o command examined on its own: the state right after UserOutput, for
\* a session without history and for a session with one earlier exchange.
EarlierHistories ==
    { <<>>, << Msg("user", <<"u">>), Msg("assistant", <<"t">>) >> }

InitRun ==
    /\ pc = "structured"
    /\ codebase = None
    /\ conversation_history \in EarlierHistories
    /\ \E instr \in Instructions :
          /\ user_instruction = instr
          /\ new_messages_first_try = structured_messages(<<>>, instr)
    /\ new_messages_second_try = <<>>
    /\ responses = <<>>
    /\ turn = 1
    /\ response_content = None
    /\ exit = "none"
    /\ reply = NoReply
    /\ outcome = "NONE"
    /\ ncycles = 1 + (Len(conversation_history) \div 2)
    /\ history_at_entry = conversation_history
    /\ context_data = <<>>
    /\ WatchUnused /\ LoadUnused /\ SaveUnused /\ MergeUnused /\ ParseUnused

NextRun ==
    \/ \E r \in RunReplies : StructuredReply(r)
    \/ \E r \in PlainReplies : PlaintextReply(r)

SpecRun == InitRun /\ [][NextRun]_vars

\* ------------------------------------------------------------------ claims
IsPrefixOf(s, t) == Len(s) <= Len(t) /\ SubSeq(t, 1, Len(s)) = s

RECURSIVE NoWhitespace(_)
NoWhitespace(s) ==
    IF s = <<>> THEN <<>>
    ELSE IF s[1] \in Whitespace THEN NoWhitespace(Tail(s))
    ELSE <<s[1]>> \o NoWhitespace(Tail(s))

\* The parts occur in s one after the other, each as a contiguous piece.
RECURSIVE ContainsInOrder(_, _)
ContainsInOrder(s, parts) ==
    IF parts = <<>> THEN TRUE
    ELSE \E i \in 1..(Len(s) - Len(parts[1]) + 1) :
            /\ SubSeq(s, i, i + Len(parts[1]) - 1) = parts[1]
            /\ ContainsInOrder(SubSeq(s, i + Len(parts[1]), Len(s)), Tail(parts))

\* A continuation request of the structured run is in flight.
ContinuationInFlight == pc = "structured" /\ turn > 1

\* The structured run has returned to prompt_user, which sent the plaintext
\* request; the run's variables still hold what it left.
RunReturnedToFallback == pc = "plaintext"

\* The run received ten texts and the parser reports none of them finished.
TurnCapReached ==
    /\ RunReturnedToFallback
    /\ Len(responses) = 10
    /\ ~parse_ai_responses(responses, FALSE).finished

\* C1 (stated up to whitespace, which lines 104-106 and 141 of ai_functions.py
\* strip on purpose): every continuation request has as many messages as the
\* first request, and its last message holds the caller's prefix followed by
\* the text of every reply received so far in the run.
C1_ContinuationExtendsLastMessage ==
    ContinuationInFlight =>
        /\ Len(messages_first_try) = Len(history_at_entry) + 2
        /\ NoWhitespace(messages_first_try[Len(messages_first_try)].content)
              = NoWhitespace(xml_prefix \o concat(responses))

\* C2: a prompt cycle hands back the history it was given, every turn with the
\* role and content it had, followed by the new turns.
C2_CycleKeepsEarlierTurns ==
    [][(pc # "prompt" /\ pc' = "prompt")
          => IsPrefixOf(history_at_entry, conversation_history')]_vars

C4_TurnCap ==
    /\ turn <= 10
    /\ TurnCapReached =>
          /\ response_content # None
          /\ response_content[1].file_data_list = <<>>

C4_Witness == TurnCapReached /\ turn = 10 /\ exit = "cap"

\* C5: the response returned at the turn cap contains every text received in
\* the run, in the order received.
C5_CapKeepsText ==
    TurnCapReached =>
        /\ response_content # None
        /\ ContainsInOrder(response_content[1].content_string, responses)

C7_NoRequestAfterFailure ==
    [][(pc = "structured" /\ reply' \in TransportErrors) => pc' = "prompt"]_vars

\* C8: a prompt cycle in which a request failed with a connection or timeout
\* error leaves the history exactly as it was before the cycle.
C8_FailedCycleRollsBack ==
    [][(pc # "prompt" /\ pc' = "prompt"
          /\ (reply \in TransportErrors \/ reply' \in TransportErrors))
          => conversation_history' = history_at_entry]_vars

\* C9: a run returns None only when the call failed with a connection or
\* timeout error; whenever a reply was received it returns a response object.
C9_NoneOnlyOnTransportError ==
    (RunReturnedToFallback /\ reply \notin TransportErrors) => response_content # None

\* C10: the plaintext request is made only after the structured run returned
\* a response whose file list is empty.
C10_FallbackOnlyOnEmptyFileList ==
    RunReturnedToFallback =>
        /\ response_content # None
        /\ response_content[1].file_data_list = <<>>

\* ================================================= the codebase watcher
\* ------------------------------------------------------------------ bounds
\* Modification times are 1..MaxMtime.
MaxMtime == 2

\* Changes of the tree between a check and the use of its result.
MaxRace == 1

\* ------------------------------------------------------------------- paths
\* A path is the directory os.walk yields and a file name in it.
FileA == [root |-> <<"src">>, name |-> <<"a", ".", "py">>]

FileB == [root |-> <<"src">>, name |-> <<"b", ".", "txt">>]

FileC == [root |-> <<"src", "__pycache__">>, name |-> <<"c", ".", "py">>]

Paths == {FileA, FileB, FileC}

\* Files whose permissions or encoding the model varies.
MayBeUnreadable == {FileA, FileB}

Mtimes == 1 .. MaxMtime

ExtensionLists == { <<>>, << <<"py">> >>, << <<"py">>, <<"md">> >> }

Absent == [exists |-> FALSE, mtime |-> 0, readable |-> FALSE]

Present(m, r) == [exists |-> TRUE, mtime |-> m, readable |-> r]

\* What a successful read of the file returns: the text the file holds as
\* of its last modification.
Content(tree, p) == [of |-> p.name, written |-> tree[p].mtime]

\* CodebaseState.files for every set of paths.
CodebaseStates == UNION { [D -> Mtimes] : D \in SUBSET Paths }

\* str.endswith
endswith(s, suffix) ==
    /\ Len(suffix) <= Len(s)
    /\ SubSeq(s, Len(s) - Len(suffix) + 1, Len(s)) = suffix

\* The filter of check_codebase:
\* any(file_name.endswith(f".{ext}") for ext in file_extensions) or not file_extensions
matches_filter(file_name, extensions) ==
    \/ \E i \in DOMAIN extensions : endswith(file_name, <<".">> \o extensions[i])
    \/ extensions = <<>>

\* "__pycache__" not in root
not_in_pycache(p) == \A i \in DOMAIN p.root : p.root[i] # "__pycache__"

\* The files the walk of check_codebase selects.
walk_selected(tree, extensions) ==
    { p \in Paths : /\ tree[p].exists
                    /\ not_in_pycache(p)
                    /\ matches_filter(p.name, extensions) }

\* Every selected file counts as new.
is_addition_any(p, state) == TRUE

\* if file_path not in codebase_state.files
is_addition(p, state) == p \notin DOMAIN state

\* Every known file counts as modified.
is_update_always(tree, p, state) == p \in DOMAIN state

\* last_modified != codebase_state.files[file_path]
is_update(tree, p, state) == p \in DOMAIN state /\ tree[p].mtime # state[p]

\* if not os.path.exists(file_path), for file_path in codebase_state.files
is_deletion(tree, p, state) == p \in DOMAIN state /\ ~tree[p].exists

FileUpdate(p, m) == [file_path |-> p, last_modified |-> m]

ChangedFiles(p, c) == [file_path |-> p, content |-> c]

CodebaseTransformation(a, d, u) == [additions |-> a, deletions |-> d, updates |-> u]

\* Only new files are read.
files_read_additions_only(tree, extensions, state) ==
    { p \in Paths : /\ tree[p].exists
                    /\ not_in_pycache(p)
                    /\ matches_filter(p.name, extensions)
                    /\ p \notin DOMAIN state }

\* The files check_codebase opens and reads.
files_read(tree, extensions, state) ==
    { p \in walk_selected(tree, extensions) :
          is_addition(p, state) \/ is_update(tree, p, state) }

\* check_codebase(codebase_location, file_extensions, codebase_state).
\* open() and read() are not guarded: a file that cannot be read raises.
check_codebase(tree, extensions, state) ==
    LET sel == walk_selected(tree, extensions) IN
    [ raised |-> \E p \in files_read(tree, extensions, state) : ~tree[p].readable,
      transformation |->
          CodebaseTransformation(
              { p \in sel : is_addition(p, state) },
              { p \in DOMAIN state : is_deletion(tree, p, state) },
              { FileUpdate(p, tree[p].mtime) :
                    p \in { q \in sel : is_update(tree, q, state) } }),
      changed_files |->
          { ChangedFiles(p, Content(tree, p)) : p \in files_read(tree, extensions, state) } ]

\* CodebaseState.add_file / remove_file, folded over the three sets in the
\* order of apply_transformation: additions, deletions, updates.
apply_additions(state, t, tree) ==
    [ p \in DOMAIN state \cup t.additions |->
          IF p \in t.additions THEN tree[p].mtime ELSE state[p] ]

apply_deletions_skipped(state, t) == state

apply_deletions(state, t) ==
    [ p \in DOMAIN state \ t.deletions |-> state[p] ]

apply_updates_skipped(state, t) == state

apply_updates(state, t) ==
    [ p \in DOMAIN state \cup { u.file_path : u \in t.updates } |->
          IF \E u \in t.updates : u.file_path = p
          THEN (CHOOSE u \in t.updates : u.file_path = p).last_modified
          ELSE state[p] ]

\* apply_transformation(codebase_state, transformation); os.path.getmtime of
\* an added path that is gone raises.
apply_transformation(state, t, tree) ==
    [ raised |-> \E p \in t.additions : ~tree[p].exists,
      state |-> apply_updates(apply_deletions(apply_additions(state, t, tree), t), t) ]

\* The extension list check_codebases hands to check_codebase.
check_codebases_filter(extensions) == <<>>

\* check_codebases(codebase_locations, codebase_states): one check per root;
\* what it reports for a root is the description and the changed contents.
check_codebases(tree, extensions, states) ==
    LET checks == [ i \in DOMAIN states |->
                      check_codebase(tree, check_codebases_filter(extensions), states[i]) ]
    IN [ raised |-> \E i \in DOMAIN states : checks[i].raised,
         change_descriptions |-> [ i \in DOMAIN states |-> checks[i].transformation ],
         file_contents |-> [ i \in DOMAIN states |-> checks[i].changed_files ] ]

NoTransformation == CodebaseTransformation({}, {}, {})

\* ----------------------------------------------------------------- actions
InitWatch ==
    /\ fs = [ p \in Paths |-> Absent ]
    /\ codebase_state \in CodebaseStates
    /\ file_extensions \in ExtensionLists
    /\ transformation = NoTransformation
    /\ changed_files = {}
    /\ wst = "idle"
    /\ report = <<>>
    /\ nrace = 0
    /\ SessionUnused /\ LoadUnused /\ SaveUnused /\ MergeUnused /\ ParseUnused

OutsideWatch == << session_vars, load_vars, save_vars, merge_vars, parse_vars >>

\* The tree may change while the program waits, and between a check and the
\* use of its result.
TreeMayChange ==
    /\ wst = "idle" \/ (wst = "checked" /\ nrace < MaxRace)
    /\ nrace' = IF wst = "checked" THEN nrace + 1 ELSE nrace
    /\ UNCHANGED << codebase_state, file_extensions, transformation, changed_files,
                    wst, report >>
    /\ UNCHANGED OutsideWatch

FsCreate(p, m, r) ==
    /\ ~fs[p].exists
    /\ r \/ p \in MayBeUnreadable
    /\ fs' = [fs EXCEPT ![p] = Present(m, r)]
    /\ TreeMayChange

FsModify(p, m) ==
    /\ fs[p].exists
    /\ m # fs[p].mtime
    /\ fs' = [fs EXCEPT ![p].mtime = m]
    /\ TreeMayChange

FsDelete(p) ==
    /\ fs[p].exists
    /\ fs' = [fs EXCEPT ![p] = Absent]
    /\ TreeMayChange

\* transformation, changed = check_codebase(location, extensions, state)
Check ==
    /\ wst \in {"idle", "applied"}
    /\ LET r == check_codebase(fs, file_extensions, codebase_state) IN
       IF r.raised
       THEN /\ wst' = "check_raised"
            /\ UNCHANGED << transformation, changed_files >>
       ELSE /\ wst' = "checked"
            /\ transformation' = r.transformation
            /\ changed_files' = r.changed_files
    /\ nrace' = 0
    /\ UNCHANGED << fs, codebase_state, file_extensions, report >>
    /\ UNCHANGED OutsideWatch

\* state = apply_transformation(state, transformation)
Apply ==
    /\ wst = "checked"
    /\ LET r == apply_transformation(codebase_state, transformation, fs) IN
       IF r.raised
       THEN /\ wst' = "apply_raised"
            /\ UNCHANGED codebase_state
       ELSE /\ wst' = "applied"
            /\ codebase_state' = r.state
    /\ UNCHANGED << fs, file_extensions, transformation, changed_files, report, nrace >>
    /\ UNCHANGED OutsideWatch

\* The caller is done with the result of the last call.
Done ==
    /\ wst \in {"checked", "applied", "reported"}
    /\ wst' = "idle"
    /\ transformation' = NoTransformation
    /\ changed_files' = {}
    /\ report' = <<>>
    /\ nrace' = 0
    /\ UNCHANGED << fs, codebase_state, file_extensions >>
    /\ UNCHANGED OutsideWatch

\* check_codebases([location], [state])
CheckCodebases ==
    /\ wst = "idle"
    /\ LET r == check_codebases(fs, file_extensions, << codebase_state >>) IN
       IF r.raised
       THEN /\ wst' = "report_raised"
            /\ UNCHANGED report
       ELSE /\ wst' = "reported"
            /\ report' = r
    /\ UNCHANGED << fs, codebase_state, file_extensions, transformation, changed_files,
                    nrace >>
    /\ UNCHANGED OutsideWatch

NextWatch ==
    \/ \E p \in Paths, m \in Mtimes, r \in BOOLEAN : FsCreate(p, m, r)
    \/ \E p \in Paths, m \in Mtimes : FsModify(p, m)
    \/ \E p \in Paths : FsDelete(p)
    \/ Check
    \/ Apply
    \/ Done
    \/ CheckCodebases

SpecWatch == InitWatch /\ [][NextWatch]_vars

\* ------------------------------------------------- claims on the watcher
\* The recorded state is what a recording of the tree with the extension
\* list in use gives: nothing was created, deleted or modified since.
InSync ==
    /\ DOMAIN codebase_state = walk_selected(fs, file_extensions)
    /\ \A p \in DOMAIN codebase_state : codebase_state[p] = fs[p].mtime

\* check_codebase has returned and the tree is as the call saw it.
CheckReturned == wst = "checked" /\ nrace = 0

UpdatedPaths == { u.file_path : u \in transformation.updates }

\* C11: if no file under the root was created, deleted or modified since
\* the state was recorded for the same root and extension list, then
\* check_codebase returns a transformation with empty additions, deletions
\* and updates, and an empty set of changed files.
C11_UnmodifiedTreeGivesEmptyDiff ==
    [][ (wst = "idle" /\ wst' \in {"checked", "check_raised"} /\ InSync)
        => /\ wst' = "checked"
           /\ transformation' = NoTransformation
           /\ changed_files' = {} ]_vars

C11_Witness ==
    /\ CheckReturned
    /\ InSync
    /\ DOMAIN codebase_state # {}
    /\ \E p \in Paths : fs[p].exists /\ p \notin DOMAIN codebase_state
    /\ transformation = NoTransformation

\* C12: for every state S, every extension list and every content of the
\* tree, the paths of apply_transformation(S, T), with T the transformation
\* check_codebase computed from S, are exactly the files the walk selects.
C12_ApplyReproducesWalk ==
    [][ (CheckReturned /\ wst' = "applied")
        => DOMAIN codebase_state' = walk_selected(fs, file_extensions) ]_vars

\* C13: in every transformation check_codebase returns, no path is in more
\* than one of additions, deletions and updates; every updated path was in
\* the previous state and still exists on disk, and has one timestamp only.
C13_TransformationSetsDisjoint ==
    CheckReturned =>
        /\ transformation.additions \cap transformation.deletions = {}
        /\ transformation.additions \cap UpdatedPaths = {}
        /\ transformation.deletions \cap UpdatedPaths = {}
        /\ \A u \in transformation.updates :
               /\ u.file_path \in DOMAIN codebase_state
               /\ fs[u.file_path].exists
        /\ \A u, v \in transformation.updates :
               u.file_path = v.file_path => u = v

C13_Witness ==
    /\ CheckReturned
    /\ file_extensions # <<>>
    /\ transformation.updates # {}
    /\ transformation.deletions # {}

\* C14: the changed-files set check_codebase returns has exactly one entry
\* for each path in additions or updates, and no entry for a path in
\* deletions or for a path whose modification time is unchanged.
C14_ChangedFilesMatchTransformation ==
    CheckReturned =>
        /\ { c.file_path : c \in changed_files }
               = transformation.additions \cup UpdatedPaths
        /\ \A c, d \in changed_files : c.file_path = d.file_path => c = d
        /\ \A c \in changed_files :
               /\ c.file_path \notin transformation.deletions
               /\ c.file_path \in DOMAIN codebase_state
                      => fs[c.file_path].mtime # codebase_state[c.file_path]

C14_Witness ==
    /\ CheckReturned
    /\ transformation.additions # {}
    /\ transformation.updates # {}
    /\ transformation.deletions # {}
    /\ Cardinality(changed_files) = 2

\* The paths a transformation reports as added or updated.
ReportedChanged(t) == t.additions \cup { u.file_path : u \in t.updates }

\* C15: the multi-codebase check runs the single check on each root with
\* the extension filter in use for that root: a file whose name does not
\* match the filter is never reported as added or updated, and a check of
\* unmodified roots reports no change.
C15_MultiCheckUsesFilter ==
    [][ (wst = "idle" /\ wst' = "reported")
        => \A i \in DOMAIN report'.change_descriptions :
               /\ \A p \in ReportedChanged(report'.change_descriptions[i]) :
                      matches_filter(p.name, file_extensions)
               /\ InSync => /\ report'.change_descriptions[i] = NoTransformation
                            /\ report'.file_contents[i] = {} ]_vars

\* C18: a file that cannot be opened or decoded during a diff affects only
\* that file: check_codebase completes without raising.
C18_UnreadableFileIsLocal == wst # "check_raised"

\* =================================================== loading the codebase
\* The order in which os.walk yields the files: a directory before its
\* subdirectories.
WalkOrder == << FileA, FileB, FileC >>

\* The trees a source directory can hold.
Trees ==
    { t \in [Paths -> {Absent} \cup { Present(m, r) : m \in Mtimes, r \in BOOLEAN }] :
          \A p \in Paths : (t[p].exists /\ ~t[p].readable) => p \in MayBeUnreadable }

encodings == << "utf-8", "cp1252", "iso-8859-1" >>

\* open(file_path, "r", encoding=encoding) and read() succeed.
can_read(tree, p, encoding) == tree[p].readable

\* The filter of load_codebase:
\* any(file_name.endswith(f".{ext}") for ext in extensions) or not any(extensions)
matches_filter_load(file_name, extensions) ==
    \/ \E i \in DOMAIN extensions : endswith(file_name, <<".">> \o extensions[i])
    \/ ~(\E i \in DOMAIN extensions : extensions[i] # <<>>)

\* "__pycache__" not in str(file_path)
path_not_in_pycache(p) ==
    /\ \A i \in DOMAIN p.root : p.root[i] # "__pycache__"
    /\ \A i \in DOMAIN p.name : p.name[i] # "__pycache__"

\* A file counts as a match only once it was read.
matched_files_loaded(tree, extensions) ==
    \E p \in Paths : /\ tree[p].exists
                     /\ matches_filter_load(p.name, extensions)
                     /\ path_not_in_pycache(p)
                     /\ \E e \in DOMAIN encodings : can_read(tree, p, encodings[e])

\* matched_files_found after the walk: set before the file is looked at.
matched_files_found(tree, extensions) ==
    \E p \in Paths : tree[p].exists /\ matches_filter_load(p.name, extensions)

\* The files load_codebase appends, in walk order: matched, outside
\* __pycache__, and readable with one of the encodings.
codebase_files(tree, extensions) ==
    SelectSeq(WalkOrder,
              LAMBDA p : /\ tree[p].exists
                         /\ matches_filter_load(p.name, extensions)
                         /\ path_not_in_pycache(p)
                         /\ \E e \in DOMAIN encodings : can_read(tree, p, encodings[e]))

\* The <file> element of one file.
file_element(tree, p) == [path |-> p, content |-> Content(tree, p)]

\* Codebase(concatenated_contents, file_paths)
Codebase(tree, files) ==
    [ concatenated_contents |-> [ i \in DOMAIN files |-> file_element(tree, files[i]) ],
      file_paths |-> files ]

\* load_codebase(base_path, extensions) for an existing directory.
load_codebase(tree, extensions) ==
    IF ~matched_files_found(tree, extensions)
    THEN [raised |-> "FileNotFoundError", codebase |-> None]
    ELSE [raised |-> "none", codebase |-> Some(Codebase(tree, codebase_files(tree, extensions)))]

\* The extension list main hands to load_codebase: reset inside the loop
\* over the sources.
main_extensions(option) == <<>>

\* main: the loading of one source; FileNotFoundError is caught.
main_load(tree, option) ==
    LET r == load_codebase(tree, main_extensions(option)) IN
    [raised |-> "none", codebase |-> r.codebase]

\* ----------------------------------------------------------------- actions
\* The lists main can build from the option: "py", "py,md", and " ", which
\* split and strip turn into [""].
LoadExtensionLists == ExtensionLists \cup { << <<>> >> }

InitLoad ==
    /\ fs \in Trees
    /\ file_extensions \in LoadExtensionLists
    /\ loaded = NotLoaded
    /\ codebase_state = <<>>
    /\ transformation = <<>>
    /\ changed_files = {}
    /\ wst = "unused"
    /\ report = <<>>
    /\ nrace = 0
    /\ SessionUnused /\ SaveUnused /\ MergeUnused /\ ParseUnused

OutsideLoad == << session_vars, watch_vars, save_vars, merge_vars, parse_vars >>

\* load_codebase(source, file_extensions)
LoadCodebase ==
    /\ loaded = NotLoaded
    /\ LET r == load_codebase(fs, file_extensions) IN
       loaded' = [by |-> "load_codebase", raised |-> r.raised, codebase |-> r.codebase]
    /\ UNCHANGED OutsideLoad

\* The program starts with the source directory and the extension option.
MainLoad ==
    /\ loaded = NotLoaded
    /\ LET r == main_load(fs, file_extensions) IN
       loaded' = [by |-> "main", raised |-> r.raised, codebase |-> r.codebase]
    /\ UNCHANGED OutsideLoad

NextLoad ==
    \/ LoadCodebase
    \/ MainLoad

SpecLoad == InitLoad /\ [][NextLoad]_vars

\* ------------------------------------------------- claims on the loading
LoadedPaths ==
    IF loaded.codebase = None THEN {}
    ELSE { loaded.codebase[1].file_paths[i] : i \in DOMAIN loaded.codebase[1].file_paths }

\* No file of the tree has a name that matches the extension list in use.
NoFileMatches ==
    \A p \in Paths : fs[p].exists => ~matches_filter_load(p.name, file_extensions)

\* C16: started with a directory holding a.py and b.txt and the filter py,
\* the loaded context contains a.py and not b.txt; only files whose names
\* end in one of the given extensions are included, and all files are
\* included only when no extension is given.
C16_LoadedContextRespectsFilter ==
    (loaded.by = "main" /\ file_extensions # <<>>)
        => \A p \in LoadedPaths : matches_filter(p.name, file_extensions)

OutputNames == { "concatenated_output.txt", "output.txt", "a.py", "b.py" }

\* What a file held before the save.
OldContent == <<"old">>

\* The output directories a save can find: each name absent or present.
OutputDirs == [OutputNames -> {None, Some(OldContent)}]

\* A FileData tuple (relative_path, contents, changes).
FileData(dir, base, contents) ==
    [relative_path |-> [dir |-> dir, base |-> base], contents |-> contents,
     changes |-> <<"changes">>]

FileDataLists ==
    { <<>>,
      << FileData(<<"src">>, "a.py", <<"x", "&lt;", "y">>) >>,
      << FileData(<<"src">>, "a.py", <<"x">>), FileData(<<"src">>, "b.py", <<"&amp;">>) >>,
      << FileData(<<"src">>, "a.py", <<"x">>), FileData(<<"lib">>, "a.py", <<"z">>) >> }

\* os.path.basename(relative_path)
basename(relative_path) == relative_path.base

\* xml.sax.saxutils.unescape on one token
unescape_token(t) ==
    IF t = "&lt;" THEN "<" ELSE IF t = "&gt;" THEN ">" ELSE IF t = "&amp;" THEN "&" ELSE t

\* xml.sax.saxutils.unescape(contents)
unescape(contents) == [ i \in DOMAIN contents |-> unescape_token(contents[i]) ]

\* os.path.exists(output_file)
file_exists(dir, name) == dir[name] # None

\* The test that keeps an existing file: not force_overwrite and exists.
skips_existing(dir, name, force_overwrite) ==
    ~force_overwrite /\ file_exists(dir, name)

\* write_files(output_dir, file_data, force_overwrite): the loop over the
\* tuples, from the i-th on; returns the directory, the count and the
\* names skipped with a notice.
RECURSIVE write_files_from(_, _, _, _, _, _)
write_files_from(dir, file_data, force_overwrite, i, num_written, skipped) ==
    IF i > Len(file_data)
    THEN [dir |-> dir, num_written |-> num_written, skipped |-> skipped]
    ELSE LET file_name == basename(file_data[i].relative_path) IN
         IF skips_existing(dir, file_name, force_overwrite)
         THEN write_files_from(dir, file_data, force_overwrite, i + 1, num_written,
                               skipped \cup {file_name})
         ELSE write_files_from(
                  [dir EXCEPT ![file_name] = Some(unescape(file_data[i].contents))],
                  file_data, force_overwrite, i + 1, num_written + 1, skipped)

write_files(dir, file_data, force_overwrite) ==
    write_files_from(dir, file_data, force_overwrite, 1, 0, {})

\* save_ai_output(response_content, output_dir, force_overwrite); it opens
\* concatenated_output.txt with "w" whatever the flag says.
save_ai_output(response, dir, force_overwrite) ==
    LET raw == [dir EXCEPT !["concatenated_output.txt"] = Some(response.content_string)]
    IN IF Len(response.file_data_list) = 0
       THEN [dir |-> raw, returned |-> None, skipped |-> {}]
       ELSE LET w == write_files(raw, response.file_data_list, force_overwrite) IN
            [dir |-> w.dir, returned |-> Some(w.num_written), skipped |-> w.skipped]

\* save_plaintext_output(content, output_dir, force_overwrite)
save_plaintext_output(content, dir, force_overwrite) ==
    IF skips_existing(dir, "output.txt", force_overwrite)
    THEN [dir |-> dir, returned |-> Some(FALSE), skipped |-> {"output.txt"}]
    ELSE [dir |-> [dir EXCEPT !["output.txt"] = Some(content)],
          returned |-> Some(TRUE), skipped |-> {}]

\* ----------------------------------------------------------------- actions
InitSave ==
    /\ output_dir \in OutputDirs
    /\ save_input \in [ file_data_list : FileDataLists,
                        content_string : { <<"raw">> },
                        force_overwrite : BOOLEAN ]
    /\ save_result = NotSaved
    /\ SessionUnused /\ WatchUnused /\ LoadUnused /\ MergeUnused /\ ParseUnused

OutsideSave == << session_vars, watch_vars, load_vars, merge_vars, parse_vars >>

\* A /o command whose structured run gave a response: save_ai_output.
SaveAiOutput ==
    /\ save_result = NotSaved
    /\ LET r == save_ai_output(save_input, output_dir, save_input.force_overwrite) IN
       /\ output_dir' = r.dir
       /\ save_result' = [by |-> "save_ai_output", before |-> output_dir,
                          returned |-> r.returned, skipped |-> r.skipped]
    /\ UNCHANGED save_input
    /\ UNCHANGED OutsideSave

\* A /o command that fell back to plain text: save_plaintext_output.
SavePlaintextOutput ==
    /\ save_result = NotSaved
    /\ LET r == save_plaintext_output(save_input.content_string, output_dir,
                                      save_input.force_overwrite) IN
       /\ output_dir' = r.dir
       /\ save_result' = [by |-> "save_plaintext_output", before |-> output_dir,
                          returned |-> r.returned, skipped |-> r.skipped]
    /\ UNCHANGED save_input
    /\ UNCHANGED OutsideSave

\* write_files(output_dir, file_data, force_overwrite), called on its own.
WriteFiles ==
    /\ save_result = NotSaved
    /\ LET r == write_files(output_dir, save_input.file_data_list,
                            save_input.force_overwrite) IN
       /\ output_dir' = r.dir
       /\ save_result' = [by |-> "write_files", before |-> output_dir,
                          returned |-> Some(r.num_written), skipped |-> r.skipped]
    /\ UNCHANGED save_input
    /\ UNCHANGED OutsideSave

NextSave ==
    \/ SaveAiOutput
    \/ SavePlaintextOutput
    \/ WriteFiles

SpecSave == InitSave /\ [][NextSave]_vars

\* --------------------------------------------------- claims on the saving
\* C19: with the force flag unset, saving the output of a /o command never
\* changes the content of a file that was in the output directory before
\* the save; each such file is skipped with a notice.
C19_SaveKeepsExistingFiles ==
    (save_result.by # "nobody" /\ ~save_input.force_overwrite)
        => \A n \in OutputNames :
               save_result.before[n] # None => output_dir[n] = save_result.before[n]

\* ================================================ CodebaseState.__add__
\* The merge keeps the left operand's timestamp for a shared path.
add_left_wins(self, other) ==
    [ self |-> self, other |-> other,
      result |-> [ p \in DOMAIN self \cup DOMAIN other |->
                       IF p \in DOMAIN self THEN self[p] ELSE other[p] ] ]

\* CodebaseState.__add__(self, other): a new state whose files are
\* {**self.files, **other.files}; gives the operands as the call leaves them.
add(self, other) ==
    [ self |-> self, other |-> other,
      result |-> [ p \in DOMAIN self \cup DOMAIN other |->
                       IF p \in DOMAIN other THEN other[p] ELSE self[p] ] ]

InitMerge ==
    /\ operands \in [a : CodebaseStates, b : CodebaseStates, c : CodebaseStates]
    /\ sums = NoSums
    /\ SessionUnused /\ WatchUnused /\ LoadUnused /\ SaveUnused /\ ParseUnused

OutsideMerge == << session_vars, watch_vars, load_vars, save_vars, parse_vars >>

\* ab = a + b; bc = b + c; left = ab + c; right = a + bc
Add ==
    /\ ~sums.computed
    /\ LET ab == add(operands.a, operands.b)
           bc == add(ab.other, operands.c)
           left == add(ab.result, bc.other)
           right == add(ab.self, bc.result)
       IN /\ sums' = [computed |-> TRUE, before |-> operands, ab |-> ab.result,
                      bc |-> bc.result, left |-> left.result, right |-> right.result]
          /\ operands' = [a |-> right.self, b |-> bc.self, c |-> left.other]
    /\ UNCHANGED OutsideMerge

NextMerge == Add

SpecMerge == InitMerge /\ [][NextMerge]_vars

\* C20: + on codebase states is associative, (a + b) + c = a + (b + c); the
\* result has the union of the paths of both operands, takes the timestamp
\* of the right operand for a path present in both, and leaves the operands
\* unchanged.
C20_AddAssociative ==
    sums.computed =>
        /\ sums.left = sums.right
        /\ DOMAIN sums.ab = DOMAIN sums.before.a \cup DOMAIN sums.before.b
        /\ \A p \in DOMAIN sums.before.b : sums.ab[p] = sums.before.b[p]
        /\ \A p \in DOMAIN sums.before.a \ DOMAIN sums.before.b :
               sums.ab[p] = sums.before.a[p]
        /\ operands = sums.before

C20_Witness ==
    /\ sums.computed
    /\ \E p \in DOMAIN operands.a \cap DOMAIN operands.b :
           operands.a[p] # operands.b[p]
    /\ \E p \in DOMAIN operands.b \cap DOMAIN operands.c :
           operands.b[p] # operands.c[p]
    /\ DOMAIN operands.a # DOMAIN operands.c

\* ================================================== parse_ai_responses
\* ------------------------------------------------------------------ bounds
\* Chunks accumulated when the parser is called.
MaxChunks == 3

\* The replies a chunk can be.
Chunks ==
    { <<"<file>", "a">>, <<"</file>">>, <<"</doc>">>, <<"t", " ">>,
      <<"<file>", "b", "</file>">> }

ChunkLists == UNION { [1 .. n -> Chunks] : n \in 0 .. MaxChunks }

InitParse ==
    /\ parse_input \in [chunks : ChunkLists, force_parse : BOOLEAN]
    /\ parsed = None
    /\ SessionUnused /\ WatchUnused /\ LoadUnused /\ SaveUnused /\ MergeUnused

OutsideParse == << session_vars, watch_vars, load_vars, save_vars, merge_vars >>

\* parse_result = parse_ai_responses(responses, force_parse)
Parse ==
    /\ parsed = None
    /\ parsed' = Some(parse_ai_responses(parse_input.chunks, parse_input.force_parse))
    /\ UNCHANGED parse_input
    /\ UNCHANGED OutsideParse

NextParse == Parse

SpecParse == InitParse /\ [][NextParse]_vars

\* --------------------------------------------------- claims on the parser
\* The document the chunks make up.
Document == concat(parse_input.chunks)

\* The positions of a token in the document, in order.
Positions(tok) ==
    SelectSeq([ i \in 1 .. Len(Document) |-> i ], LAMBDA i : Document[i] = tok)

\* The document is a run of closed file elements followed by one that is
\* opened and not closed; its root is not closed.
LastFileOpen ==
    LET opens == Positions("<file>")
        closes == Positions("</file>")
    IN /\ Positions("</doc>") = <<>>
       /\ Len(opens) = Len(closes) + 1
       /\ \A i \in DOMAIN closes : opens[i] < closes[i] /\ closes[i] < opens[i + 1]

\* The contents of the closed file elements, in document order.
ClosedElements ==
    LET opens == Positions("<file>")
        closes == Positions("</file>")
    IN [ i \in DOMAIN closes |-> SubSeq(Document, opens[i] + 1, closes[i] - 1) ]

\* C21: for chunks in which a <file> element is opened but not closed, and
\* force_parse false, the parser returns finished = false and
\* file_data_list = None, which is not the empty list of a document parsed
\* with zero files.
C21_OpenFileNeedsContinuation ==
    (parsed # None /\ LastFileOpen /\ ~parse_input.force_parse)
        => /\ parsed[1].finished = FALSE
           /\ parsed[1].file_data_list = None
           /\ parsed[1].file_data_list # Some(<<>>)

C21_Witness ==
    /\ parsed # None
    /\ LastFileOpen
    /\ ~parse_input.force_parse
    /\ Len(ClosedElements) = 1
    /\ parsed[1].file_data_list = None

\* C22: for chunks in which the last <file> element is opened but not
\* closed, and force_parse true, the parser returns a file_data_list that
\* holds exactly the closed <file> elements, in document order, without the
\* incomplete trailing element.
C22_ForcedParseKeepsClosedFiles ==
    (parsed # None /\ LastFileOpen /\ parse_input.force_parse)
        => parsed[1].file_data_list = Some(ClosedElements)

C22_Witness ==
    /\ parsed # None
    /\ LastFileOpen
    /\ parse_input.force_parse
    /\ Len(ClosedElements) = 1
    /\ parsed[1].file_data_list = Some(ClosedElements)

\* ------------------------------------------------ claims on the run, cont.
\* The reply reaches the parser: the call did not raise and the text of the
\* first block is not empty.
ReplyIsParsed(r) == r \notin TransportErrors /\ ~(r.kind = "text" /\ r.text = <<>>)

\* C23: after each reply that is parsed, gather_ai_responses sends another
\* request if and only if the parse result is not finished, the parse was
\* not forced and fewer than 10 requests have been sent.
C23_ContinueIffUnfinished ==
    [][ (pc = "structured" /\ ReplyIsParsed(reply'))
        => LET force == reply'.kind = "noblock"
               chunks == IF force THEN responses ELSE Append(responses, reply'.text)
               result == parse_ai_responses(chunks, force)
           IN (pc' = "structured" /\ turn' = turn + 1)
                  <=> (~result.finished /\ ~force /\ turn < 10) ]_vars

C23_Witness ==
    /\ pc = "structured"
    /\ turn = 3
    /\ exit = "loop"
    /\ parse_ai_responses(responses, FALSE) = [finished |-> FALSE, file_data_list |-> None]

\* C24: for the same tree and the same extension list, the walk of
\* check_codebase selects exactly the files the walk of load_codebase
\* selects: same extension test, same treatment of an empty list, same
\* exclusion of __pycache__ paths.
C24_WalksSelectSameFiles ==
    (/\ loaded.by = "load_codebase"
     /\ \A p \in Paths : fs[p].exists => fs[p].readable)
        => LoadedPaths = walk_selected(fs, file_extensions)

\* ----------------------------------------- claims on the watcher, cont.
\* C25: in the state apply_transformation returns, the timestamp of every
\* added path and of every updated path is the modification time read from
\* the filesystem when apply_transformation runs, not one recorded earlier.
C25_AppliedTimestampsAreFresh ==
    wst = "applied" =>
        \A p \in ReportedChanged(transformation) : codebase_state[p] = fs[p].mtime

\* C25 as the code has it: an added path gets the modification time read
\* when apply_transformation runs; an updated path gets the time
\* check_codebase recorded in its FileUpdate.
C25_AddedFreshUpdatedRecorded ==
    wst = "applied" =>
        /\ \A p \in transformation.additions : codebase_state[p] = fs[p].mtime
        /\ \A u \in transformation.updates :
               codebase_state[u.file_path] = u.last_modified

C25_Witness ==
    /\ wst = "applied"
    /\ nrace = 1
    /\ transformation.additions # {}
    /\ \E u \in transformation.updates :
           fs[u.file_path].exists /\ fs[u.file_path].mtime # u.last_modified

\* The file was modified after the last check read it.
ModifiedSinceRead(c) ==
    fs[c.file_path].exists /\ fs[c.file_path].mtime # c.content.written

\* C26: no modification is lost between a check and the fold of its
\* result: a file modified after check_codebase read its content and before
\* apply_transformation ran is reported as updated by the next
\* check_codebase against the resulting state, whether the first check
\* classified it as added or as updated.
C26_RacingModificationIsReported ==
    [][ (wst = "applied" /\ wst' = "checked")
        => \A c \in changed_files :
               ModifiedSinceRead(c)
                   => \E u \in transformation'.updates : u.file_path = c.file_path ]_vars

\* C27: if the filesystem does not change, a check against
\* apply_transformation(S, T), with T the transformation check_codebase
\* computed from S, yields an empty transformation.
C27_CheckAfterApplyIsEmpty ==
    [][ (wst = "applied" /\ nrace = 0 /\ wst' \in {"checked", "check_raised"})
        => /\ wst' = "checked"
           /\ transformation' = NoTransformation
           /\ changed_files' = {} ]_vars

C27_Witness ==
    /\ wst = "applied"
    /\ nrace = 0
    /\ transformation.additions # {}
    /\ transformation.updates # {}
    /\ transformation.deletions # {}

\* ------------------------------------------------ claims on the session
\* A request of the running command is in flight.
RequestInFlight == pc \in {"structured", "plaintext", "chat"}

\* The user message the running command built for the request in flight.
NewUserMessage ==
    IF pc = "plaintext" THEN new_messages_second_try[1] ELSE new_messages_first_try[1]

\* The codebase contents are part of the message.
HasContext(msg) == \E i \in DOMAIN msg.content : msg.content[i] = "<codebase>"

FilesOnDisk == { n \in OutputNames : output_dir[n] # None }

\* C29: after write_files on an empty output directory with a batch whose
\* entries have pairwise different relative paths, the content of every
\* entry is on disk in a file of its own, and the returned count equals the
\* number of files on disk; with and without the force flag.
C29_EveryEntryGetsItsFile ==
    LET batch == save_input.file_data_list IN
    (/\ save_result.by = "write_files"
     /\ \A n \in OutputNames : save_result.before[n] = None
     /\ \A i, j \in DOMAIN batch :
            i # j => batch[i].relative_path # batch[j].relative_path)
        => /\ save_result.returned = Some(Cardinality(FilesOnDisk))
           /\ Cardinality(FilesOnDisk) = Len(batch)
           /\ \A i \in DOMAIN batch :
                  \E n \in FilesOnDisk : output_dir[n] = Some(unescape(batch[i].contents))

\* --------------------------------------------- claims on the run, cont.
EndsInWhitespace(s) == s # <<>> /\ s[Len(s)] \in Whitespace

\* C30: every continuation request sent by gather_ai_responses ends with an
\* assistant message whose content has no trailing whitespace, while the
\* chunks handed to the parser keep every reply exactly as received.
C30_ContinuationHasNoTrailingWhitespace ==
    [][ (pc = "structured" /\ pc' = "structured" /\ turn' = turn + 1)
        => LET request == conversation_history' \o new_messages_first_try'
               last == request[Len(request)]
           IN /\ last.role = "assistant"
              /\ ~EndsInWhitespace(last.content)
              /\ responses' = Append(responses, reply'.text) ]_vars

C30_Witness ==
    /\ pc = "structured"
    /\ turn = 2
    /\ conversation_history = <<>>
    /\ EndsInWhitespace(responses[1])
    /\ new_messages_first_try[2].content = xml_prefix \o rstrip(responses[1])

====
